---- MODULE Spec2Model ----
(***************************************************************************)
(* IoT-device-simulator: the sample pipeline of src/main.rs.               *)
(*                                                                         *)
(* One run of `main` is modelled as a sequential state machine.  `pc` is   *)
(* the position of the single task inside `main`; the command line, the    *)
(* dataset file, the outcome of `protect` and the answers of the HTTP      *)
(* server are inputs, drawn from small sets.  History variables (requests, *)
(* responses, protect_calls, ...) record what the run has done so far.     *)
(*                                                                         *)
(* Representation choices                                                  *)
(*  - a text line is the sequence of its whitespace-separated tokens;      *)
(*  - an f64 is [kind |-> "fin", n |-> k] for the value k / Den, or one of *)
(*    the kinds "nan", "posbig", "negbig" (finite or infinite values whose *)
(*    scaled floor lies outside the i64 range);                            *)
(*  - an i64 is [kind |-> "small", v |-> k], "max" or "min";               *)
(*  - args.count is a u128: [fits |-> TRUE, val |-> n] when it fits a      *)
(*    usize, [fits |-> FALSE, val |-> 0] for every larger value;           *)
(*  - a duration written to the benchmark file is represented by the name  *)
(*    of the stage it measures.                                            *)
(* Not modelled: failures of the clock, of opening the dataset or of       *)
(* writing the benchmark file, and failures inside AuthToken.              *)
(***************************************************************************)
EXTENDS Integers, Sequences, FiniteSets

\* ------------------------------------------------------------- bounds
\* Largest number of sample lines (lines after the two header lines).
MaxLines == 2
\* Largest usize-representable value of --count that is enumerated.
MaxCount == 2
\* Largest number of tokens of a line handed to the codec on its own.
MaxTokens == 3

\* ------------------------------------------------------------- inputs
\* 256 = 2^8: the fixed-point scale factor.
Scale == 256

\* Denominator of the modelled f64 values: a finite value is n / Den, a
\* resolution four times finer than the fixed-point one.
Den == 4 * Scale

\* Header lines the dataset may hold: a well-formed integer, or other text.
HeaderLines == { <<"3">>, <<"abc">> }

\* Sample lines the dataset may hold.
SampleLines == { <<>>, <<"1.0", "-0.5">>, <<"1.5", "abc", "2.0">> }

\* `str::parse::<i64>` would accept these header tokens (the code never asks).
IsIntegerLine(line) == line \in { <<"3">> }

VARIABLES
    gateway,               \* args.gateway
    gateway_authenticate,  \* args.gateway_authenticate
    count,                 \* args.count
    dataset_len,           \* number of lines of ../ecg_dataset.txt
    lines_read,            \* results of line_iterator.next() so far
    pc,                    \* position in main
    state,                 \* DeviceState
    i,                     \* enumerate() index of the current sample
    sample,                \* encoded bytes of the current sample
    ct_sample,             \* output of protect for the current sample
    res,                   \* Response of the current sample
    bench_file,            \* rows of the benchmark file, each a sequence of fields
    requests,              \* every request sent, in order
    in_flight,             \* requests sent and not yet answered
    responses,             \* outcome of every send, in order
    protect_calls,         \* every call of protect, in order
    token_calls,           \* number of calls of auth_token.token()
    encoded,               \* samples encoded so far: <<index, bytes>>
    sleeps,                \* number of thread::sleep calls
    codec_line,            \* a sample line, for the encoding expression alone
    codec_words,           \* the i64 words the expression computes from it
    codec_sample           \* the Vec<u8> it collects

vars == << gateway, gateway_authenticate, count, dataset_len, lines_read, pc,
           state, i, sample, ct_sample, res, bench_file, requests, in_flight,
           responses, protect_calls, token_calls, encoded, sleeps,
           codec_line, codec_words, codec_sample >>

codec == << codec_line, codec_words, codec_sample >>
args == << gateway, gateway_authenticate, count >>
dataset == << dataset_len, lines_read >>
history == << requests, responses, protect_calls, token_calls, encoded, sleeps >>

\* ------------------------------------------------------------- codec
\* data_point.parse::<f64>().ok()
ParseF64(tok) ==
    CASE tok = "1.0"    -> [ok |-> TRUE, val |-> [kind |-> "fin", n |-> 1024]]
      [] tok = "-0.5"   -> [ok |-> TRUE, val |-> [kind |-> "fin", n |-> -512]]
      [] tok = "1.5"    -> [ok |-> TRUE, val |-> [kind |-> "fin", n |-> 1536]]
      [] tok = "2.0"    -> [ok |-> TRUE, val |-> [kind |-> "fin", n |-> 2048]]
      [] tok = "3"      -> [ok |-> TRUE, val |-> [kind |-> "fin", n |-> 3072]]
      [] tok = "0.001953125"  -> [ok |-> TRUE, val |-> [kind |-> "fin", n |-> 2]]
      [] tok = "-0.001953125" -> [ok |-> TRUE, val |-> [kind |-> "fin", n |-> -2]]
      [] tok = "127.998046875" -> [ok |-> TRUE, val |-> [kind |-> "fin", n |-> 131070]]
      [] tok = "-128.0009765625" -> [ok |-> TRUE, val |-> [kind |-> "fin", n |-> -131073]]
      [] tok = "NaN"    -> [ok |-> TRUE, val |-> [kind |-> "nan", n |-> 0]]
      [] tok = "inf"    -> [ok |-> TRUE, val |-> [kind |-> "posbig", n |-> 0]]
      [] tok = "-inf"   -> [ok |-> TRUE, val |-> [kind |-> "negbig", n |-> 0]]
      [] tok = "1e300"  -> [ok |-> TRUE, val |-> [kind |-> "posbig", n |-> 0]]
      [] tok = "-1e300" -> [ok |-> TRUE, val |-> [kind |-> "negbig", n |-> 0]]
      [] OTHER          -> [ok |-> FALSE, val |-> [kind |-> "nan", n |-> 0]]

\* ScaleFloor without the .floor(): the cast alone rounds toward zero.
ScaleTruncate(v) ==
    IF v.kind = "fin"
    THEN [kind |-> "fin",
          n |-> IF v.n >= 0 THEN (v.n * Scale) \div Den
                ELSE -((-v.n * Scale) \div Den)]
    ELSE v

\* (data_point * 256f64).floor(): the result is the integer it returns.
ScaleFloor(v) ==
    IF v.kind = "fin" THEN [kind |-> "fin", n |-> (v.n * Scale) \div Den]
    ELSE v

\* AsI64 as an unchecked conversion (to_int_unchecked, x86 cvttsd2si): every
\* value that does not fit gives the bit pattern of i64::MIN.
AsI64Unchecked(f) ==
    CASE f.kind = "fin"    -> [kind |-> "small", v |-> f.n]
      [] f.kind = "nan"    -> [kind |-> "min", v |-> 0]
      [] f.kind = "posbig" -> [kind |-> "min", v |-> 0]
      [] f.kind = "negbig" -> [kind |-> "min", v |-> 0]

\* `as i64` on an f64: NaN gives 0, out-of-range values saturate.
AsI64(f) ==
    CASE f.kind = "fin"    -> [kind |-> "small", v |-> f.n]
      [] f.kind = "nan"    -> [kind |-> "small", v |-> 0]
      [] f.kind = "posbig" -> [kind |-> "max", v |-> 0]
      [] f.kind = "negbig" -> [kind |-> "min", v |-> 0]

\* Byte k (0 = least significant) of the two's complement of a small integer.
ByteOf(v, k) ==
    IF v >= 0 THEN (v \div (256 ^ k)) % 256
    ELSE 255 - (((-v - 1) \div (256 ^ k)) % 256)

\* i64::to_le_bytes
ToLeBytes(w) ==
    CASE w.kind = "small" ->
            [k \in 1..8 |-> IF k <= 3 THEN ByteOf(w.v, k - 1)
                            ELSE IF w.v >= 0 THEN 0 ELSE 255]
      [] w.kind = "max" -> [k \in 1..8 |-> IF k = 8 THEN 127 ELSE 255]
      [] w.kind = "min" -> [k \in 1..8 |-> IF k = 8 THEN 128 ELSE 0]

\* Words with `map(|t| t.parse().unwrap_or(0.0))` in place of filter_map: a
\* token that does not parse is encoded as zero.
RECURSIVE WordsZeroForBad(_)
WordsZeroForBad(line) ==
    IF line = <<>> THEN <<>>
    ELSE LET p == ParseF64(Head(line))
         IN  IF p.ok THEN <<AsI64(ScaleFloor(p.val))>> \o WordsZeroForBad(Tail(line))
             ELSE <<[kind |-> "small", v |-> 0]>> \o WordsZeroForBad(Tail(line))

\* The words of a line: filter_map(parse) then the scaled floor as i64.
RECURSIVE Words(_)
Words(line) ==
    IF line = <<>> THEN <<>>
    ELSE LET p == ParseF64(Head(line))
         IN  IF p.ok THEN <<AsI64(ScaleFloor(p.val))>> \o Words(Tail(line))
             ELSE Words(Tail(line))

\* flat_map(to_le_bytes).collect()
RECURSIVE Flatten(_)
Flatten(ws) ==
    IF ws = <<>> THEN <<>> ELSE ToLeBytes(Head(ws)) \o Flatten(Tail(ws))

\* The whole expression that computes `sample` from a line.
Encode(line) == Flatten(Words(line))

\* ------------------------------------------------------------- crypto
\* The hard-coded nonce seed and device key, by name.
NonceSeed == "733f773e1d5fa3df5e056bf5"
DeviceKey == "8a47c045167b1ad4494685a520d0d69e"

\* DeviceState::new(nonce, key)
NewDeviceState(nonce, key) == [nonce |-> nonce, key |-> key, counter |-> 0]

\* The nonce the next protect call on `st` derives.
DeriveNonce(st) == << st.nonce, st.counter >>

\* The state a successful protect call leaves behind.
Advance(st) == [st EXCEPT !.counter = @ + 1]

\* protect(context, state, AesGcm128, plaintext) on success: the payload.
Ciphertext(context, st, plaintext) ==
    [ad |-> context, key |-> st.key, nonce |-> DeriveNonce(st), pt |-> plaintext]

\* CLIENT_ID, the context identifier handed to protect.
client_id == "client_id"

\* ------------------------------------------------------------- requests
NoResponse == [status |-> "none", date |-> "none"]
NoCiphertext == [ad |-> "", key |-> "", nonce |-> << "", 0 >>, pt |-> <<>>]

\* DirectBody with the event pushed twice into the batch.
DirectBodyTwice(ct) ==
    << [metric |-> "ecg_test::json", value |-> [c |-> ct],
        source |-> "IoT Device Simulator"],
       [metric |-> "ecg_test::json", value |-> [c |-> ct],
        source |-> "IoT Device Simulator"] >>

\* vec![IngestMetricEvent { metric, value: CipherTextValue { c }, source }]
DirectBody(ct) ==
    << [metric |-> "ecg_test::json", value |-> [c |-> ct],
        source |-> "IoT Device Simulator"] >>

\* GatewayIngestMetricEvent { timestamp, metric, value, source }
GatewayBody(bytes) ==
    [timestamp |-> "now", metric |-> "ecg_test::json", value |-> bytes,
     source |-> "IoT Device Simulator"]

\* The three branches of the loop body: which one a run takes.
Mode ==
    IF ~gateway THEN "direct"
    ELSE IF gateway_authenticate THEN "gateway_auth"
    ELSE "gateway_device_auth"

\* UsesBearer with the last branch written like the second one: only the
\* direct branch authenticates.
UsesBearerDirectOnly == Mode = "direct"

\* Whether the branch calls .bearer_auth(auth_token.token().await).
UsesBearer == Mode \in {"direct", "gateway_device_auth"}

\* The endpoint the request is posted to.
ingest_endpoint == IF gateway THEN "GATEWAY_ENDPOINT" ELSE "INGEST_ENDPOINT"

\* args.count.try_into(): Ok(n) when the u128 fits a usize.
TryIntoUsize(c) == [ok |-> c.fits, val |-> c.val]

\* Sample lines of the dataset: the lines after the two header lines.
NumSampleLines == IF dataset_len > 2 THEN dataset_len - 2 ELSE 0

\* ------------------------------------------------------------- Init
Counts ==
    { [fits |-> TRUE, val |-> n] : n \in 0..MaxCount }
        \cup { [fits |-> FALSE, val |-> 0] }

\* Init with the nonce seed drawn afresh for the run instead of hard-coded.
InitFreshNonce ==
    /\ gateway \in BOOLEAN
    /\ gateway_authenticate \in BOOLEAN
    /\ count \in Counts
    /\ dataset_len \in 0..(MaxLines + 2)
    /\ lines_read = <<>>
    /\ pc = "read_x"
    /\ state \in { NewDeviceState(n, DeviceKey) : n \in {NonceSeed, "fresh"} }
    /\ i = 0
    /\ sample = <<>>
    /\ ct_sample = NoCiphertext
    /\ res = NoResponse
    /\ bench_file = <<>>
    /\ requests = <<>>
    /\ in_flight = {}
    /\ responses = <<>>
    /\ protect_calls = <<>>
    /\ token_calls = 0
    /\ encoded = <<>>
    /\ sleeps = 0
    /\ codec_line = <<>>
    /\ codec_words = <<>>
    /\ codec_sample = <<>>

Init ==
    /\ gateway \in BOOLEAN
    /\ gateway_authenticate \in BOOLEAN
    /\ count \in Counts
    /\ dataset_len \in 0..(MaxLines + 2)
    /\ lines_read = <<>>
    /\ pc = "read_x"
    /\ state = NewDeviceState(NonceSeed, DeviceKey)
    /\ i = 0
    /\ sample = <<>>
    /\ ct_sample = NoCiphertext
    /\ res = NoResponse
    /\ bench_file = <<>>
    /\ requests = <<>>
    /\ in_flight = {}
    /\ responses = <<>>
    /\ protect_calls = <<>>
    /\ token_calls = 0
    /\ encoded = <<>>
    /\ sleeps = 0
    /\ codec_line = <<>>
    /\ codec_words = <<>>
    /\ codec_sample = <<>>

\* ------------------------------------------------------------- actions
\* What line_iterator.next() can return at this point of the file.
NextLine(choices) ==
    IF Len(lines_read) >= dataset_len THEN { [some |-> FALSE, ok |-> FALSE, text |-> <<>>] }
    ELSE { [some |-> TRUE, ok |-> TRUE, text |-> t] : t \in choices }
            \cup { [some |-> TRUE, ok |-> FALSE, text |-> <<>>] }

\* Append a field to the row being written (write!), or start that row.
AppendField(file, field) ==
    IF file # <<>> /\ file[Len(file)].open
    THEN [file EXCEPT ![Len(file)].fields = Append(@, field)]
    ELSE Append(file, [open |-> TRUE, fields |-> <<field>>])

\* End the row being written (the newline of writeln!).
CloseRow(file) == [file EXCEPT ![Len(file)].open = FALSE]

\* if let Some(Ok(x)) = line_iterator.next() { println } else { panic }
ReadHeaderX ==
    /\ pc = "read_x"
    /\ \E l \in NextLine(HeaderLines) :
        /\ lines_read' = IF l.some THEN Append(lines_read, l) ELSE lines_read
        /\ pc' = IF l.some /\ l.ok THEN "read_y" ELSE "panic"
    /\ UNCHANGED << codec, args, dataset_len, state, i, sample, ct_sample, res,
                    bench_file, in_flight, history >>

\* ReadHeaderY with the else branch only printing a warning: no panic.
ReadHeaderYNoPanic ==
    /\ pc = "read_y"
    /\ \E l \in NextLine(HeaderLines) :
        /\ lines_read' = IF l.some THEN Append(lines_read, l) ELSE lines_read
        /\ pc' = "open_bench"
    /\ UNCHANGED << codec, args, dataset_len, state, i, sample, ct_sample, res,
                    bench_file, in_flight, history >>

\* if let Some(Ok(y)) = line_iterator.next() { println } else { panic }
ReadHeaderY ==
    /\ pc = "read_y"
    /\ \E l \in NextLine(HeaderLines) :
        /\ lines_read' = IF l.some THEN Append(lines_read, l) ELSE lines_read
        /\ pc' = IF l.some /\ l.ok THEN "open_bench" ELSE "panic"
    /\ UNCHANGED << codec, args, dataset_len, state, i, sample, ct_sample, res,
                    bench_file, in_flight, history >>

\* Open the benchmark file and write its header row.
OpenBenchFile ==
    /\ pc = "open_bench"
    /\ bench_file' = << [open |-> FALSE, fields |-> << "sample_read_micros",
                          "sample_encrypt_micros", "sample_ingest_micros" >>] >>
    /\ pc' = "next_sample"
    /\ UNCHANGED << codec, args, dataset, state, i, sample, ct_sample, res,
                    in_flight, history >>

\* NextSample with `if line.is_empty() { continue; }` before the encoding.
NextSampleSkipEmpty ==
    /\ pc = "next_sample"
    /\ \E l \in NextLine(SampleLines) :
        /\ lines_read' = IF l.some THEN Append(lines_read, l) ELSE lines_read
        /\ i' = IF l.some THEN Len(lines_read) - 2 ELSE i
        /\ IF ~l.some THEN
              /\ pc' = "done"
              /\ UNCHANGED << sample, encoded >>
           ELSE IF ~l.ok THEN
              /\ pc' = "error"
              /\ UNCHANGED << sample, encoded >>
           ELSE IF l.text = <<>> THEN
              /\ pc' = "next_sample"
              /\ UNCHANGED << sample, encoded >>
           ELSE
              /\ sample' = Encode(l.text)
              /\ encoded' = Append(encoded, << Len(lines_read) - 2, Encode(l.text) >>)
              /\ pc' = "write_read"
    /\ ct_sample' = NoCiphertext
    /\ res' = NoResponse
    /\ UNCHANGED << codec, args, dataset_len, state, bench_file, requests, in_flight,
                    responses, protect_calls, token_calls, sleeps >>

\* for (i, sample_line) in line_iterator.enumerate(): take the next line,
\* `sample_line?`, and encode it.
NextSample ==
    /\ pc = "next_sample"
    /\ \E l \in NextLine(SampleLines) :
        /\ lines_read' = IF l.some THEN Append(lines_read, l) ELSE lines_read
        /\ i' = IF l.some THEN Len(lines_read) - 2 ELSE i
        /\ IF ~l.some THEN
              /\ pc' = "done"
              /\ UNCHANGED << sample, encoded >>
           ELSE IF ~l.ok THEN
              /\ pc' = "error"
              /\ UNCHANGED << sample, encoded >>
           ELSE
              /\ sample' = Encode(l.text)
              /\ encoded' = Append(encoded, << Len(lines_read) - 2, Encode(l.text) >>)
              /\ pc' = "write_read"
    /\ ct_sample' = NoCiphertext
    /\ res' = NoResponse
    /\ UNCHANGED << codec, args, dataset_len, state, bench_file, requests, in_flight,
                    responses, protect_calls, token_calls, sleeps >>

\* WriteReadTime with the `if !args.gateway` test lost: every mode protects.
WriteReadTimeAlwaysProtect ==
    /\ pc = "write_read"
    /\ bench_file' = AppendField(bench_file, "read")
    /\ pc' = "protect"
    /\ UNCHANGED << codec, args, dataset, state, i, sample, ct_sample, res,
                    in_flight, history >>

\* write!(bench_file, "{},", read time)
WriteReadTime ==
    /\ pc = "write_read"
    /\ bench_file' = AppendField(bench_file, "read")
    /\ pc' = IF ~gateway THEN "protect" ELSE "write_encrypt"
    /\ UNCHANGED << codec, args, dataset, state, i, sample, ct_sample, res,
                    in_flight, history >>

\* ProtectSample handing protect a copy of the state (`&mut state.clone()`):
\* the pipeline's own state never advances.
ProtectSampleOnCopy ==
    /\ pc = "protect"
    /\ \E ok \in BOOLEAN :
        /\ protect_calls' = Append(protect_calls,
                [sample |-> i, nonce |-> DeriveNonce(state), ok |-> ok,
                 out |-> IF ok THEN Ciphertext(client_id, state, sample)
                         ELSE NoCiphertext])
        /\ ct_sample' = IF ok THEN Ciphertext(client_id, state, sample) ELSE ct_sample
        /\ state' = state
        /\ pc' = IF ok THEN "write_encrypt" ELSE "panic"
    /\ UNCHANGED << codec, args, dataset, i, sample, res, bench_file, requests,
                    in_flight, responses, token_calls, encoded, sleeps >>

\* ProtectSample with the error swallowed (`unwrap_or_default()` instead of
\* `let .. else { panic! }`): the loop goes on with an empty ciphertext.
ProtectSampleIgnoreError ==
    /\ pc = "protect"
    /\ \E ok \in BOOLEAN :
        /\ protect_calls' = Append(protect_calls,
                [sample |-> i, nonce |-> DeriveNonce(state), ok |-> ok,
                 out |-> IF ok THEN Ciphertext(client_id, state, sample)
                         ELSE NoCiphertext])
        /\ ct_sample' = IF ok THEN Ciphertext(client_id, state, sample) ELSE NoCiphertext
        /\ state' = Advance(state)
        /\ pc' = "write_encrypt"
    /\ UNCHANGED << codec, args, dataset, i, sample, res, bench_file, requests,
                    in_flight, responses, token_calls, encoded, sleeps >>

\* let Ok(ct_sample) = protect(&client_id, &mut state, AesGcm128, &sample)
\* else { panic! }
ProtectSample ==
    /\ pc = "protect"
    /\ \E ok \in BOOLEAN :
        /\ protect_calls' = Append(protect_calls,
                [sample |-> i, nonce |-> DeriveNonce(state), ok |-> ok,
                 out |-> IF ok THEN Ciphertext(client_id, state, sample)
                         ELSE NoCiphertext])
        /\ IF ok THEN
              /\ ct_sample' = Ciphertext(client_id, state, sample)
              /\ state' = Advance(state)
              /\ pc' = "write_encrypt"
           ELSE
              /\ ct_sample' = ct_sample
              /\ state' \in { state, Advance(state) }
              /\ pc' = "panic"
    /\ UNCHANGED << codec, args, dataset, i, sample, res, bench_file, requests,
                    in_flight, responses, token_calls, encoded, sleeps >>

\* write!(bench_file, "{},", encrypt time), in each of the three branches
WriteEncryptTime ==
    /\ pc = "write_encrypt"
    /\ bench_file' = AppendField(bench_file, "encrypt")
    /\ pc' = IF UsesBearer THEN "token" ELSE "send"
    /\ UNCHANGED << codec, args, dataset, state, i, sample, ct_sample, res,
                    in_flight, history >>

\* auth_token.token().await
GetToken ==
    /\ pc = "token"
    /\ token_calls' = token_calls + 1
    /\ pc' = "send"
    /\ UNCHANGED << codec, args, dataset, state, i, sample, ct_sample, res,
                    bench_file, requests, in_flight, responses, protect_calls,
                    encoded, sleeps >>

\* The request a branch builds: bearer = 0 for none, else the number of the
\* token() call that supplied the token.
BuildRequest ==
    [sample |-> i,
     endpoint |-> ingest_endpoint,
     bearer |-> IF UsesBearer THEN token_calls ELSE 0,
     body |-> IF ~gateway THEN DirectBody(ct_sample) ELSE GatewayBody(sample)]

\* SendRequest as a detached task (`tokio::spawn(.. .send())`): the loop does
\* not wait for the answer.
SendRequestDetached ==
    /\ pc = "send"
    /\ requests' = Append(requests, BuildRequest)
    /\ in_flight' = in_flight \cup { Len(requests) + 1 }
    /\ pc' = "count_check"
    /\ UNCHANGED << codec, args, dataset, state, i, sample, ct_sample, res,
                    bench_file, responses, protect_calls, token_calls,
                    encoded, sleeps >>

\* http_client.post(..)...send(): the request leaves
SendRequest ==
    /\ pc = "send"
    /\ requests' = Append(requests, BuildRequest)
    /\ in_flight' = in_flight \cup { Len(requests) + 1 }
    /\ pc' = "await_send"
    /\ UNCHANGED << codec, args, dataset, state, i, sample, ct_sample, res,
                    bench_file, responses, protect_calls, token_calls,
                    encoded, sleeps >>

\* What the server may answer: a status class and the state of the Date header.
Answers ==
    { [status |-> s, date |-> d] :
        s \in {"2xx", "non2xx"}, d \in {"ok", "missing", "not_ascii"} }

\* .send().await?: a transport failure returns the error from main, any
\* response (whatever its status) is bound to `res`.
AwaitSend ==
    /\ pc = "await_send"
    /\ in_flight' = in_flight \ { Len(requests) }
    /\ \/ /\ responses' = Append(responses, [status |-> "transport_error", date |-> "none"])
          /\ res' = res
          /\ pc' = "error"
       \/ \E a \in Answers :
          /\ responses' = Append(responses, a)
          /\ res' = a
          /\ pc' = "write_ingest"
    /\ UNCHANGED << codec, args, dataset, state, i, sample, ct_sample, bench_file,
                    requests, protect_calls, token_calls, encoded, sleeps >>

\* writeln!(bench_file, "{}", ingest time)
WriteIngestTime ==
    /\ pc = "write_ingest"
    /\ bench_file' = CloseRow(AppendField(bench_file, "ingest"))
    /\ pc' = "println"
    /\ UNCHANGED << codec, args, dataset, state, i, sample, ct_sample, res,
                    in_flight, history >>

\* println!(.., res.headers()[DATE].to_str().unwrap(), res.status(), ..)
PrintIngested ==
    /\ pc = "println"
    /\ pc' = IF res.date = "ok" THEN "count_check" ELSE "panic"
    /\ UNCHANGED << codec, args, dataset, state, i, sample, ct_sample, res,
                    bench_file, in_flight, history >>

\* if i + 1 >= args.count.try_into().unwrap() { break; }
CountCheck ==
    /\ pc = "count_check"
    /\ LET n == TryIntoUsize(count)
       IN  pc' = IF ~n.ok THEN "panic"
                 ELSE IF i + 1 >= n.val THEN "done"
                 ELSE "sleep"
    /\ UNCHANGED << codec, args, dataset, state, i, sample, ct_sample, res,
                    bench_file, in_flight, history >>

\* Sleep made conditional on the answer: no pause after a non-2xx response.
SleepOnlyAfterSuccess ==
    /\ pc = "sleep"
    /\ sleeps' = IF res.status = "2xx" THEN sleeps + 1 ELSE sleeps
    /\ pc' = "next_sample"
    /\ UNCHANGED << codec, args, dataset, state, i, sample, ct_sample, res,
                    bench_file, requests, in_flight, responses, protect_calls,
                    token_calls, encoded >>

\* thread::sleep(Duration::from_millis(args.interval))
Sleep ==
    /\ pc = "sleep"
    /\ sleeps' = sleeps + 1
    /\ pc' = "next_sample"
    /\ UNCHANGED << codec, args, dataset, state, i, sample, ct_sample, res,
                    bench_file, requests, in_flight, responses, protect_calls,
                    token_calls, encoded >>

Next ==
    \/ ReadHeaderX
    \/ ReadHeaderY
    \/ OpenBenchFile
    \/ NextSample
    \/ WriteReadTime
    \/ ProtectSample
    \/ WriteEncryptTime
    \/ GetToken
    \/ SendRequest
    \/ AwaitSend
    \/ WriteIngestTime
    \/ PrintIngested
    \/ CountCheck
    \/ Sleep

Spec == Init /\ [][Next]_vars

\* The run has ended: Ok(()) returned, an Err returned, or a panic.
Ended == pc \in {"done", "error", "panic"}

\* ------------------------------------------------------------- the codec alone
\* Tokens a sample line may hold: decimal numbers, the special values f64's
\* parser accepts, and text it rejects.
Tokens ==
    { "1.0", "-0.5", "1.5", "2.0", "0.001953125", "-0.001953125",
      "127.998046875", "-128.0009765625", "NaN", "-inf", "1e300", "abc" }

\* Lines of exactly n tokens.
RECURSIVE LinesOfLen(_)
LinesOfLen(n) ==
    IF n = 0 THEN { <<>> }
    ELSE { <<t>> \o l : t \in Tokens, l \in LinesOfLen(n - 1) }

\* Sample lines of at most MaxTokens tokens.
CodecLines == UNION { LinesOfLen(n) : n \in 0..MaxTokens }

\* The pipeline is at rest; only the line to encode is chosen.
CodecInit ==
    /\ gateway = FALSE
    /\ gateway_authenticate = FALSE
    /\ count = [fits |-> TRUE, val |-> 0]
    /\ dataset_len = 0
    /\ lines_read = <<>>
    /\ pc = "codec"
    /\ state = NewDeviceState(NonceSeed, DeviceKey)
    /\ i = 0
    /\ sample = <<>>
    /\ ct_sample = NoCiphertext
    /\ res = NoResponse
    /\ bench_file = <<>>
    /\ requests = <<>>
    /\ in_flight = {}
    /\ responses = <<>>
    /\ protect_calls = <<>>
    /\ token_calls = 0
    /\ encoded = <<>>
    /\ sleeps = 0
    /\ codec_line \in CodecLines
    /\ codec_words = <<>>
    /\ codec_sample = <<>>

\* let sample: Vec<u8> = line.split_whitespace().filter_map(..).flat_map(..)
\* .collect(), applied to codec_line.
EncodeLine ==
    /\ pc = "codec"
    /\ codec_words' = Words(codec_line)
    /\ codec_sample' = Encode(codec_line)
    /\ pc' = "codec_done"
    /\ UNCHANGED << args, dataset, state, i, sample, ct_sample, res,
                    bench_file, in_flight, history, codec_line >>

CodecNext == EncodeLine

CodecSpec == CodecInit /\ [][CodecNext]_vars

\* ------------------------------------------------------------- properties
\* Sample line j (0-based) of the dataset, once it has been read.
SampleLine(j) == lines_read[j + 3]

\* Rows of the benchmark file after the header row that are complete.
SampleRows == { k \in 2..Len(bench_file) : ~bench_file[k].open }

\* Every line was readable, every protect call returned Ok and every send
\* was answered with a 2xx status and a usable Date header.
AllSucceeded ==
    /\ \A k \in 1..Len(lines_read) : lines_read[k].ok
    /\ \A k \in 1..Len(protect_calls) : protect_calls[k].ok
    /\ \A k \in 1..Len(responses) :
          responses[k].status = "2xx" /\ responses[k].date = "ok"

\* C1: with a count limit C that fits and a dataset of more than C sample
\* lines, a run in which everything succeeds ends normally having sent
\* exactly C requests and written exactly C benchmark rows.
C1_RunTermination ==
    (Ended /\ AllSucceeded /\ count.fits /\ NumSampleLines > count.val)
        => /\ pc = "done"
           /\ Len(requests) = count.val
           /\ Cardinality(SampleRows) = count.val

\* C2: the crypto state keeps the seed and key it was created with, its
\* counter moves only with protect calls, and the nonces of all protect
\* calls of the run are pairwise distinct.
C2_NonceUnique ==
    /\ state.nonce = NonceSeed /\ state.key = DeviceKey
    /\ state.counter <= Len(protect_calls)
    /\ state.counter >=
          Cardinality({ k \in 1..Len(protect_calls) : protect_calls[k].ok })
    /\ \A a, b \in 1..Len(protect_calls) :
          a # b => protect_calls[a].nonce # protect_calls[b].nonce

\* C2 witness: a second protect call has been made in one run.
C2_Witness == Len(protect_calls) = 2 /\ state.counter = 2

\* Protect calls made for sample j.
CallsFor(j) == { k \in 1..Len(protect_calls) : protect_calls[k].sample = j }

\* Samples whose processing has passed the protect position.
PastProtect ==
    { j \in 0..(Len(encoded) - 1) :
        j < Len(encoded) - 1 \/ pc \notin {"write_read", "protect"} }

\* C3: in direct mode every sample past the protect position has exactly
\* one protect call, made before its request, and the request carries that
\* call's output; in gateway mode protect is never called and the crypto
\* state stays as created.
C3_ProtectOncePerSample ==
    /\ ~gateway =>
          /\ \A j \in PastProtect : Cardinality(CallsFor(j)) = 1
          /\ \A j \in 0..(Len(encoded) - 1) : Cardinality(CallsFor(j)) <= 1
          /\ \A r \in 1..Len(requests) :
                \E k \in CallsFor(requests[r].sample) :
                    /\ protect_calls[k].ok
                    /\ Len(requests[r].body) = 1
                    /\ requests[r].body[1].value.c = protect_calls[k].out
    /\ gateway =>
          /\ protect_calls = <<>>
          /\ state = NewDeviceState(NonceSeed, DeviceKey)

\* C3 witness: a direct-mode run has sent its second request.
C3_Witness == ~gateway /\ Len(requests) = 2 /\ Len(protect_calls) = 2

\* The plaintext bytes a request carries.
PlainOf(r) == IF gateway THEN r.body.value ELSE r.body[1].value.c.pt

\* C4: requests leave in the order of their source lines, each carrying the
\* encoding of its own line, at most one is in flight, and sample j is
\* encoded and protected only after j sends have completed.
C4_OrderAndSequencing ==
    /\ Cardinality(in_flight) <= 1
    /\ (in_flight # {}) <=> (pc = "await_send")
    /\ \A r \in 1..Len(requests) :
          /\ requests[r].sample = r - 1
          /\ PlainOf(requests[r]) = Encode(SampleLine(r - 1).text)
    /\ \A e \in 1..Len(encoded) :
          encoded[e][1] = e - 1 /\ Len(responses) >= e - 1
          /\ (e < Len(encoded) => Len(requests) >= e)
    /\ \A k \in 1..Len(protect_calls) :
          Len(responses) >= protect_calls[k].sample
    /\ Len(requests) - Len(responses) \in {0, 1}

\* C4 witness: the second request is in flight after the first send completed.
C4_Witness ==
    Len(requests) = 2 /\ in_flight = {2} /\ Len(responses) = 1

\* C5: a request carries a bearer token exactly when the run is in direct
\* mode or in gateway mode without gateway_authenticate, the token is the
\* one fetched for that request, and with gateway and gateway_authenticate
\* token() is never called.
C5_BearerWhenDeviceAuthenticates ==
    /\ \A r \in 1..Len(requests) :
          IF ~gateway \/ ~gateway_authenticate
          THEN requests[r].bearer = r
          ELSE requests[r].bearer = 0
    /\ (gateway /\ gateway_authenticate) => token_calls = 0
    /\ (~gateway \/ ~gateway_authenticate) =>
          token_calls - Len(requests) \in {0, 1}

\* C5 witness: gateway mode without gateway_authenticate has sent two
\* requests with bearer tokens.
C5_Witness ==
    gateway /\ ~gateway_authenticate /\ Len(requests) = 2 /\ token_calls = 2

\* Positions of the loop body after the send of the current sample.
AfterSend == {"await_send", "write_ingest", "println", "count_check", "sleep"}

\* C6: every sample gets at most one request, exactly one once it is past
\* the send, and the body has the shape of the run's mode: in direct mode a
\* one-element array holding {metric, value: {c: protect output}, source},
\* in gateway mode one {timestamp, metric, value: encoded bytes, source}.
C6_OneRequestPerSampleShape ==
    /\ \A r \in 1..Len(requests) : requests[r].sample = r - 1
    /\ Len(requests) <= Len(encoded)
    /\ Cardinality(SampleRows) <= Len(requests)
    /\ pc \in AfterSend => Len(requests) = i + 1
    /\ \A r \in 1..Len(requests) :
          LET b == requests[r].body
          IN  IF ~gateway
              THEN /\ Len(b) = 1
                   /\ DOMAIN b[1] = {"metric", "value", "source"}
                   /\ DOMAIN b[1].value = {"c"}
                   /\ b[1].metric = "ecg_test::json"
                   /\ b[1].source = "IoT Device Simulator"
                   /\ \E k \in CallsFor(r - 1) :
                         protect_calls[k].ok /\ b[1].value.c = protect_calls[k].out
              ELSE /\ DOMAIN b = {"timestamp", "metric", "value", "source"}
                   /\ b.metric = "ecg_test::json"
                   /\ b.source = "IoT Device Simulator"
                   /\ b.value = Encode(SampleLine(r - 1).text)

\* C6 witness: a direct-mode run has sent two requests for two samples.
C6_Witness ==
    ~gateway /\ Len(requests) = 2 /\ pc = "count_check" /\ i = 1

\* A send that ended in a transport failure or a non-2xx status.
FailedSend(k) ==
    responses[k].status \in {"transport_error", "non2xx"}

\* C7: after a failed send no later sample is encoded, protected or sent.
C7_DispatchFailureFatal ==
    \A k \in 1..Len(responses) :
        FailedSend(k) =>
            /\ Len(encoded) <= k
            /\ Len(requests) <= k
            /\ \A c \in 1..Len(protect_calls) : protect_calls[c].sample < k

\* C8: a failed protect call is the last thing the run does: the run has
\* panicked, the sample has no request and no second protect call, and no
\* later sample exists.
C8_ProtectFailureFatal ==
    \A k \in 1..Len(protect_calls) :
        ~protect_calls[k].ok =>
            /\ pc = "panic"
            /\ k = Len(protect_calls)
            /\ CallsFor(protect_calls[k].sample) = {k}
            /\ Len(requests) = protect_calls[k].sample
            /\ Len(encoded) = protect_calls[k].sample + 1

\* C8 witness: the second protect call of a run failed.
C8_Witness ==
    Len(protect_calls) = 2 /\ ~protect_calls[2].ok

\* No sample has been encoded, protected or sent.
NothingProcessed ==
    encoded = <<>> /\ protect_calls = <<>> /\ requests = <<>>

\* C9 as claimed: a header line that is missing, unreadable or not a
\* well-formed integer stops the run before any sample is processed.
C9_HeaderErrorsFatal_Original ==
    (\/ dataset_len < 2
     \/ \E k \in 1..2 :
           /\ k <= Len(lines_read)
           /\ (~lines_read[k].ok \/ ~IsIntegerLine(lines_read[k].text)))
        => /\ NothingProcessed
           /\ pc \in {"read_x", "read_y", "panic"}

\* C9 amended: a header line that is missing or cannot be read stops the
\* run with a panic before any sample is processed.
C9_HeaderMissingFatal ==
    /\ dataset_len < 2 =>
          /\ NothingProcessed
          /\ pc \in {"read_x", "read_y", "panic"}
    /\ \A k \in 1..2 :
          (k <= Len(lines_read) /\ ~lines_read[k].ok) =>
              NothingProcessed /\ pc = "panic"

\* C9 witness: the second header line is missing and the run has panicked.
C9_Witness ==
    dataset_len = 1 /\ Len(lines_read) = 1 /\ lines_read[1].ok /\ pc = "panic"

\* L <= C for the u128 count limit.
CountAtLeast(n) == ~count.fits \/ n <= count.val

\* C10: with both headers present, L sample lines and a count limit C with
\* L <= C, a run in which everything succeeds ends normally after exactly L
\* samples.
C10_EndsByExhaustion ==
    (Ended /\ AllSucceeded /\ dataset_len >= 2 /\ CountAtLeast(NumSampleLines))
        => /\ pc = "done"
           /\ Len(requests) = NumSampleLines
           /\ Cardinality(SampleRows) = NumSampleLines

\* The tokens of a line that f64's parser accepts, in line order.
Parsed(line) == SelectSeq(line, LAMBDA t : ParseF64(t).ok)

\* The 8 bytes of word number j (from 1) of an encoded sample.
WordBytes(bytes, j) == SubSeq(bytes, 8 * (j - 1) + 1, 8 * j)

\* `bytes` holds exactly one word per parsed token of `line`, in token order.
OneWordPerParsedToken(line, bytes) ==
    /\ Len(bytes) = 8 * Len(Parsed(line))
    /\ \A j \in 1..Len(Parsed(line)) :
          WordBytes(bytes, j) =
              ToLeBytes(AsI64(ScaleFloor(ParseF64(Parsed(line)[j]).val)))

\* C11: every sample line that was read is encoded without error into one
\* word per token that parses as f64, in token order, tokens that do not
\* parse adding nothing, and its request carries exactly those bytes.
C11_SkipPolicy ==
    /\ \A j \in 0..(Len(lines_read) - 3) :
          lines_read[j + 3].ok =>
              /\ Len(encoded) >= j + 1
              /\ OneWordPerParsedToken(SampleLine(j).text, encoded[j + 1][2])
    /\ \A r \in 1..Len(requests) :
          OneWordPerParsedToken(SampleLine(r - 1).text, PlainOf(requests[r]))
    /\ \A j \in 0..(Len(encoded) - 1) :
          (j < Len(encoded) - 1 \/ pc \in AfterSend) => Len(requests) >= j + 1

\* C11 witness: the line "1.5 abc 2.0" was encoded into two words (16 bytes)
\* and its request has been answered.
C11_Witness ==
    /\ Len(responses) >= 1
    /\ SampleLine(0).text = <<"1.5", "abc", "2.0">>
    /\ Len(PlainOf(requests[1])) = 16
    /\ pc = "count_check"

\* Sample lines read so far that are empty.
EmptySamples ==
    { j \in 0..(Len(lines_read) - 3) :
        lines_read[j + 3].ok /\ SampleLine(j).text = <<>> }

\* C12: an empty sample line is encoded (to no bytes) like any other line,
\* takes its index and so counts toward the limit, is protected once in
\* direct mode, and gets one request and one benchmark row.
C12_EmptyLineProcessed ==
    /\ \A j \in EmptySamples :
          /\ Len(encoded) >= j + 1
          /\ encoded[j + 1] = << j, <<>> >>
          /\ (~gateway /\ j \in PastProtect) =>
                \E k \in CallsFor(j) :
                    /\ CallsFor(j) = {k}
                    /\ protect_calls[k].ok => protect_calls[k].out.pt = <<>>
          /\ (j < Len(encoded) - 1 \/ pc \in AfterSend) =>
                /\ Len(requests) >= j + 1
                /\ requests[j + 1].sample = j
                /\ PlainOf(requests[j + 1]) = <<>>
          /\ (j < Len(encoded) - 1 \/ pc \in {"println", "count_check", "sleep"}) =>
                /\ Len(bench_file) >= j + 2
                /\ ~bench_file[j + 2].open
                /\ Len(bench_file[j + 2].fields) = 3
    /\ count.fits =>
          Len(encoded) <= (IF count.val = 0 THEN 1 ELSE count.val)

\* C12 witness: a direct-mode run of two empty lines with limit 2 has ended
\* normally after two protect calls, two requests and two rows.
C12_Witness ==
    /\ ~gateway /\ pc = "done" /\ count = [fits |-> TRUE, val |-> 2]
    /\ dataset_len = 4
    /\ EmptySamples = {0, 1}
    /\ Len(protect_calls) = 2 /\ Len(requests) = 2
    /\ Cardinality(SampleRows) = 2

\* The low 24 bits of an 8-byte word, read little-endian.
Low24(b) == b[1] + 256 * b[2] + 256 * 256 * b[3]

\* `b` is the 8-byte little-endian two's complement of the integer w
\* (for |w| < 2^23).
IsLeTwosComplement(b, w) ==
    /\ Len(b) = 8
    /\ \A k \in 1..8 : b[k] \in 0..255
    /\ Low24(b) = w % (256 * 256 * 256)
    /\ \A k \in 4..8 : b[k] = IF w < 0 THEN 255 ELSE 0

\* C13: for every parsed in-range value v = n / Den the word w satisfies
\* w <= v * 256 < w + 1 and is emitted as its 8 little-endian two's
\* complement bytes, in input order, 8 bytes per parsed value; the line
\* "1.0 -0.5" gives the words [256, -128], whose low 16 bits are the bytes
\* [0x00, 0x01] and [0x80, 0xFF].
C13_FixedPointEncoding ==
    pc = "codec_done" =>
        /\ Len(codec_words) = Len(Parsed(codec_line))
        /\ Len(codec_sample) = 8 * Len(Parsed(codec_line))
        /\ \A j \in 1..Len(Parsed(codec_line)) :
              LET v == ParseF64(Parsed(codec_line)[j]).val
                  w == codec_words[j]
              IN  v.kind = "fin" =>
                    /\ w.kind = "small"
                    /\ w.v * Den <= v.n * Scale
                    /\ v.n * Scale < (w.v + 1) * Den
                    /\ IsLeTwosComplement(WordBytes(codec_sample, j), w.v)
        /\ codec_line = <<"1.0", "-0.5">> =>
              /\ codec_words = << [kind |-> "small", v |-> 256],
                                  [kind |-> "small", v |-> -128] >>
              /\ codec_sample = << 0, 1, 0, 0, 0, 0, 0, 0,
                                   128, 255, 255, 255, 255, 255, 255, 255 >>

\* C13 witness: a line with a negative value just below zero, a token that
\* does not parse and a positive value has been encoded.
C13_Witness ==
    /\ pc = "codec_done"
    /\ codec_line = <<"-0.001953125", "abc", "1.5">>
    /\ Len(codec_sample) = 16
    /\ codec_words[1].v = -1

\* C14: a value whose scaled floor is above the i64 range is encoded as
\* i64::MAX and one below the range as i64::MIN.
C14_Saturation ==
    pc = "codec_done" =>
        \A j \in 1..Len(Parsed(codec_line)) :
            LET v == ParseF64(Parsed(codec_line)[j]).val
                b == WordBytes(codec_sample, j)
            IN  /\ v.kind = "posbig" =>
                      b = << 255, 255, 255, 255, 255, 255, 255, 127 >>
                /\ v.kind = "negbig" =>
                      b = << 0, 0, 0, 0, 0, 0, 0, 128 >>

\* C14 witness: a line holding a value above and a value below the i64 range
\* has been encoded.
C14_Witness ==
    /\ pc = "codec_done"
    /\ codec_line = <<"1e300", "1.0", "-inf">>
    /\ Len(codec_sample) = 24

\* The header row of the benchmark file.
BenchHeader ==
    [open |-> FALSE, fields |-> << "sample_read_micros",
        "sample_encrypt_micros", "sample_ingest_micros" >>]

\* Sends that were answered by the server (the dispatch completed).
CompletedDispatches ==
    { k \in 1..Len(responses) : responses[k].status # "transport_error" }

\* At the end of a run the file, if it was opened, starts with the one header
\* row, every later row is complete with three durations, and there is one
\* such row per completed dispatch.
BenchShapeAtEnd ==
    (Ended /\ bench_file # <<>>) =>
        /\ bench_file[1] = BenchHeader
        /\ \A k \in 2..Len(bench_file) :
              /\ bench_file[k] # BenchHeader
              /\ ~bench_file[k].open
              /\ bench_file[k].fields = << "read", "encrypt", "ingest" >>
        /\ Len(bench_file) - 1 = Cardinality(CompletedDispatches)

\* A step only appends to the file: rows already written stay as they are,
\* and an unfinished last row only grows.
BenchAppendOnly ==
    /\ Len(bench_file') >= Len(bench_file)
    /\ \A k \in 1..Len(bench_file) :
          IF bench_file[k].open
          THEN /\ Len(bench_file'[k].fields) >= Len(bench_file[k].fields)
               /\ SubSeq(bench_file'[k].fields, 1, Len(bench_file[k].fields))
                     = bench_file[k].fields
          ELSE bench_file'[k] = bench_file[k]

\* C15: the header row is written once and first, at the end of every run
\* (normal or aborted) every later row holds exactly three durations, one
\* row per completed dispatch, and the file is only ever appended to.
C15_BenchmarkLogShape ==
    [] BenchShapeAtEnd /\ [][BenchAppendOnly]_vars

\* Positions of the loop body before the send of the current sample.
BeforeSend == {"write_read", "protect", "write_encrypt", "token", "send"}

\* C16: sample i is processed after exactly i sleeps, so exactly one sleep
\* lies between two consecutive dispatches whatever the answers were, every
\* sleep follows a dispatch, and a run that ends on the count limit has not
\* slept after its last sample.
C16_Pacing ==
    /\ pc \in BeforeSend \cup AfterSend => sleeps = i
    /\ pc = "await_send" => sleeps = Len(requests) - 1
    /\ Len(requests) - sleeps \in {0, 1}
    /\ sleeps <= Len(responses)
    /\ (pc = "next_sample" /\ responses # <<>>) => sleeps = Len(responses)
    /\ (/\ pc = "done"
        /\ count.fits
        /\ Len(requests) = (IF count.val = 0 THEN 1 ELSE count.val))
          => sleeps = Len(requests) - 1

\* C16 witness: a run with limit 2 ended on the limit after two dispatches,
\* the first answered with a non-2xx status, and one sleep.
C16_Witness ==
    /\ pc = "done" /\ count = [fits |-> TRUE, val |-> 2]
    /\ Len(requests) = 2 /\ sleeps = 1
    /\ responses[1].status = "non2xx"

\* C17: in every run the crypto state starts as the same value, built from
\* the hard-coded seed and key, and the k-th protect call is made with that
\* key and with the nonce state k - 1 steps after that start; these values
\* depend on k alone, so any two runs agree on them.
C17_SameCryptoStateEveryRun ==
    /\ pc = "read_x" =>
          state = [nonce |-> NonceSeed, key |-> DeviceKey, counter |-> 0]
    /\ \A k \in 1..Len(protect_calls) :
          /\ protect_calls[k].nonce = << NonceSeed, k - 1 >>
          /\ protect_calls[k].ok =>
                /\ protect_calls[k].out.key = DeviceKey
                /\ protect_calls[k].out.nonce = << NonceSeed, k - 1 >>

\* C17 witness: a direct-mode run has made its second protect call.
C17_Witness ==
    ~gateway /\ Len(protect_calls) = 2 /\ protect_calls[2].ok

\* C18: once the current sample's send was answered with a 2xx status the
\* run does not abort: it is logging the sample, at the count check, going
\* on to the next sample or ended normally.
C18_SuccessNeverAborts ==
    res.status = "2xx" =>
        pc \in {"write_ingest", "println", "count_check", "sleep", "done"}

====
